---- MODULE Spec2Model ----
(***************************************************************************)
(* A model of the nano-banana MCP server (src/main.go): the line loop of   *)
(* Server.Run, the method dispatch of handleRequest, the tool dispatch of  *)
(* handleCallTool, the two tool operations generateImage and editImage,    *)
(* and saveImage, together with the parts of the environment they act on   *)
(* (standard input and output, the file system, the remote image service). *)
(*                                                                         *)
(* Strings that the code takes apart are sequences: a path is a sequence   *)
(* of the characters "/", "." and letters, a message is a sequence of      *)
(* fragments, a base64 text is a sequence of alphabet indices 0..63 with   *)
(* 64 for the padding character.  The empty string is <<>>.                *)
(***************************************************************************)
EXTENDS Integers, Sequences, FiniteSets, TLC

VARIABLES
    pc,           \* position of the single goroutine inside Run and its callees
    lineNo,       \* number of lines the scanner has returned so far
    cur,          \* the line of the current loop iteration (line, req)
    resp,         \* the *JSONRPCResponse of the current iteration, Nil when nil
    imageData,    \* local imageData of generateImage / editImage
    stdout,       \* what Run has printed: one entry per line written
    client,       \* Server.client
    outputDir,    \* Server.outputDir
    dirs,         \* directories created by os.MkdirAll (paths relative to the cwd)
    files,        \* files written by os.WriteFile: set of <<path, bytes>>
    events,       \* the outbound calls of the current iteration, in order
    inflight,     \* line numbers of the requests whose handling has begun and not ended
    exitErr       \* what Run returned, once it has returned

vars == <<pc, lineNo, cur, resp, imageData, stdout, client, outputDir, dirs, files,
          events, inflight, exitErr>>

-----------------------------------------------------------------------------
(* Bounds of the model *)

MaxLines == 2          \* lines on standard input
MaxParts == 1          \* parts of a candidate of a remote response
MaxArgLines == 1       \* lines on standard input when the output directory varies

-----------------------------------------------------------------------------
(* Constants of the program *)

protocolVersion == "2024-11-05"
serverName == "nano-banana-mcp"
serverVersion == "2.0.0"
defaultOutputDir == <<"generated">>
MethodNotFound == -32601
InvalidParams == -32602

Nil == <<>>
Some(x) == <<x>>

-----------------------------------------------------------------------------
(* path/filepath *)

Dot == <<".">>
DotDot == <<".", ".">>

\* strings.Contains(s, sub)
Contains(s, sub) ==
    \E i \in 1..(Len(s) - Len(sub) + 1) : SubSeq(s, i, i + Len(sub) - 1) = sub

\* The elements of a path between its separators (empty elements included).
RECURSIVE SplitPath(_)
SplitPath(p) ==
    IF p = <<>> THEN << <<>> >>
    ELSE LET rest == SplitPath(Tail(p))
         IN  IF Head(p) = "/" THEN << <<>> >> \o rest
             ELSE << <<Head(p)>> \o Head(rest) >> \o Tail(rest)

RECURSIVE JoinElems(_)
JoinElems(es) ==
    IF es = <<>> THEN <<>>
    ELSE IF Len(es) = 1 THEN es[1]
    ELSE es[1] \o <<"/">> \o JoinElems(Tail(es))

\* The element loop of filepath.Clean: out is the output written so far.
RECURSIVE CleanLoop(_, _, _)
CleanLoop(es, out, rooted) ==
    IF es = <<>> THEN out
    ELSE LET e == Head(es)
             rest == Tail(es)
         IN  IF e = <<>> \/ e = Dot THEN CleanLoop(rest, out, rooted)
             ELSE IF e = DotDot
                  THEN IF out # <<>> /\ out[Len(out)] # DotDot
                       THEN CleanLoop(rest, SubSeq(out, 1, Len(out) - 1), rooted)
                       ELSE IF ~rooted THEN CleanLoop(rest, Append(out, DotDot), rooted)
                       ELSE CleanLoop(rest, out, rooted)
                  ELSE CleanLoop(rest, Append(out, e), rooted)

\* filepath.Clean
Clean(path) ==
    LET rooted == path # <<>> /\ path[1] = "/"
        out == CleanLoop(SplitPath(path), <<>>, rooted)
    IN  IF rooted THEN <<"/">> \o JoinElems(out)
        ELSE IF out = <<>> THEN Dot
        ELSE JoinElems(out)

\* filepath.Join(a, b): empty elements are ignored, the rest joined and cleaned.
Join(a, b) ==
    IF a = <<>> /\ b = <<>> THEN <<>>
    ELSE IF a = <<>> THEN Clean(b)
    ELSE IF b = <<>> THEN Clean(a)
    ELSE Clean(a \o <<"/">> \o b)

\* The working directory of the process.
Cwd == <<"/", "cwd">>

\* filepath.Abs of a path, when os.Getwd succeeds.
Abs(path) ==
    IF path # <<>> /\ path[1] = "/" THEN Clean(path) ELSE Join(Cwd, path)

\* A path is inside a directory when it continues the directory's path.
HasPrefix(s, pre) == Len(s) >= Len(pre) /\ SubSeq(s, 1, Len(pre)) = pre

-----------------------------------------------------------------------------
(* encoding/base64, StdEncoding: characters are alphabet indices, 64 is "=" *)

Pad == 64

RECURSIVE EncodeToString(_)
EncodeToString(src) ==
    IF src = <<>> THEN <<>>
    ELSE IF Len(src) = 1
         THEN << src[1] \div 4, (src[1] % 4) * 16, Pad, Pad >>
    ELSE IF Len(src) = 2
         THEN << src[1] \div 4, (src[1] % 4) * 16 + src[2] \div 16,
                 (src[2] % 16) * 4, Pad >>
    ELSE << src[1] \div 4, (src[1] % 4) * 16 + src[2] \div 16,
            (src[2] % 16) * 4 + src[3] \div 64, src[3] % 64 >>
         \o EncodeToString(SubSeq(src, 4, Len(src)))

\* DecodeString: <<TRUE, bytes>> or <<FALSE, <<>> >> on corrupt input.
RECURSIVE DecodeString(_)
DecodeString(s) ==
    IF s = <<>> THEN <<TRUE, <<>> >>
    ELSE IF Len(s) < 4 \/ s[1] = Pad \/ s[2] = Pad THEN <<FALSE, <<>> >>
    ELSE LET b1 == s[1] * 4 + s[2] \div 16
             b2 == (s[2] % 16) * 16 + s[3] \div 4
             b3 == (s[3] % 4) * 64 + s[4]
         IN  IF s[3] = Pad
             THEN IF s[4] = Pad /\ Len(s) = 4 /\ s[2] % 16 = 0
                  THEN <<TRUE, <<b1>> >> ELSE <<FALSE, <<>> >>
             ELSE IF s[4] = Pad
             THEN IF Len(s) = 4 /\ s[3] % 4 = 0
                  THEN <<TRUE, <<b1, b2>> >> ELSE <<FALSE, <<>> >>
             ELSE LET rest == DecodeString(SubSeq(s, 5, Len(s)))
                  IN  IF rest[1] THEN <<TRUE, <<b1, b2, b3>> \o rest[2]>>
                      ELSE <<FALSE, <<>> >>

-----------------------------------------------------------------------------
(* JSON values of a tools/call argument map, and the request envelope *)

Val(t, v) == [t |-> t, v |-> v]
Absent == Val("absent", <<>>)          \* the key is not in the map
Number == Val("number", <<>>)          \* a JSON value that is not a string
Str(s) == Val("string", s)

\* args[key].(string): the string and ok
StringArg(args, key) ==
    LET v == IF key = "prompt" THEN args.prompt ELSE args.image_path
    IN  IF v.t = "string" THEN [s |-> v.v, ok |-> TRUE] ELSE [s |-> <<>>, ok |-> FALSE]

NilArgs == [isNil |-> TRUE, prompt |-> Absent, image_path |-> Absent]
Args(p, ip) == [isNil |-> FALSE, prompt |-> p, image_path |-> ip]

PromptVals == {Absent, Number, Str(<<>>), Str(<<"p">>)}

\* The files of the file system that os.ReadFile can read, by their cleaned paths:
\* the working directory holds a readable file a; /a does not exist and / is a
\* directory.
ReadableFiles == { <<"a">> }

\* The image paths offered to edit_image.
ImagePaths ==
    { <<"a">>,                                        \* a
      <<"/", "a">>,                                   \* /a
      <<".", ".", "/", "a">>,                         \* ../a
      <<"a", "/", ".", ".", "/", "a">>,               \* a/../a
      <<"a", "/", ".", ".", "/", ".", ".", "/", "a">>,\* a/../../a
      <<"/", ".", ".">>,                              \* /..
      <<"a", ".", ".", "a">> }                        \* a..a

PathVals == {Absent, Number, Str(<<>>)} \cup {Str(p) : p \in ImagePaths}

\* CallToolParams after json.Unmarshal; ok is FALSE when Unmarshal failed.
BadParams == [ok |-> FALSE, Name |-> "", Arguments |-> NilArgs]
CallParams(n, a) == [ok |-> TRUE, Name |-> n, Arguments |-> a]

ToolParams ==
    {BadParams, CallParams("unknown_tool", NilArgs), CallParams("generate_image", NilArgs),
     CallParams("edit_image", NilArgs)}
    \cup {CallParams("generate_image", Args(p, Absent)) : p \in PromptVals}
    \cup {CallParams("edit_image", Args(p, ip)) : p \in PromptVals, ip \in PathVals}

IDs == {Nil, Some(1)}

Methods == {"initialize", "notifications/initialized", "tools/list", "tools/call",
            "notifications/cancelled"}

Request(id, m, ps) == [ID |-> id, Method |-> m, Params |-> ps]

Requests ==
    {Request(id, m, BadParams) : id \in IDs, m \in Methods \ {"tools/call"}}
    \cup {Request(id, "tools/call", ps) : id \in IDs, ps \in ToolParams}

\* A line of standard input: what it is, and the request it decodes to.
NoReq == Request(Nil, "", BadParams)
Line(k, r) == [kind |-> k, req |-> r]
NoLine == Line("none", NoReq)

-----------------------------------------------------------------------------
(* Responses *)

TextContent(text) == [Type |-> "text", Text |-> text, Data |-> <<>>, MimeType |-> ""]
ImageContent(data) == [Type |-> "image", Text |-> <<>>, Data |-> data, MimeType |-> "image/png"]
CallToolResult(content, isError) ==
    [kind |-> "CallToolResult", Content |-> content, IsError |-> isError]

ErrorResponse(id, code, msg) ==
    [JSONRPC |-> "2.0", ID |-> id, Result |-> Nil,
     Error |-> Some([Code |-> code, Message |-> msg])]
ResultResponse(id, result) ==
    [JSONRPC |-> "2.0", ID |-> id, Result |-> Some(result), Error |-> Nil]

\* handleRequest's default case
MethodNotFoundResponse(req) == ErrorResponse(req.ID, MethodNotFound, <<"Method not found">>)

handleInitialize(req) ==
    ResultResponse(req.ID,
        [kind |-> "InitializeResult", ProtocolVersion |-> protocolVersion,
         Capabilities |-> {"tools"},
         ServerInfo |-> [Name |-> serverName, Version |-> serverVersion]])

\* Variant of handleListTools: the tools are listed only once a reply has gone out.
handleListToolsAfterFirstReply(req) ==
    IF stdout = <<>>
    THEN ErrorResponse(req.ID, InvalidParams, <<"Server not initialized">>)
    ELSE ResultResponse(req.ID,
            [kind |-> "ListToolsResult",
             Tools |-> << [Name |-> "generate_image", Required |-> <<"prompt">>],
                          [Name |-> "edit_image", Required |-> <<"image_path", "prompt">>] >>])

handleListTools(req) ==
    ResultResponse(req.ID,
        [kind |-> "ListToolsResult",
         Tools |-> << [Name |-> "generate_image", Required |-> <<"prompt">>],
                      [Name |-> "edit_image", Required |-> <<"image_path", "prompt">>] >>])

InvalidParamsResponse(req) == ErrorResponse(req.ID, InvalidParams, <<"Invalid params">>)
UnknownToolResponse(req) ==
    ErrorResponse(req.ID, MethodNotFound, <<"Unknown tool: ", req.Params.Name>>)

\* Variant of CallToolReturn: the operation's error becomes a JSON-RPC error.
CallToolReturnAsError(req, result, err) ==
    IF err # Nil
    THEN ErrorResponse(req.ID, MethodNotFound, <<"Error: ">> \o err[1])
    ELSE ResultResponse(req.ID, result)

\* The end of handleCallTool: the operation's (result, err) as a response.
CallToolReturn(req, result, err) ==
    IF err # Nil
    THEN ResultResponse(req.ID,
             CallToolResult(<<TextContent(<<"Error: ">> \o err[1])>>, TRUE))
    ELSE ResultResponse(req.ID, result)

\* json.Marshal of a response: the omitempty fields that are empty are left out.
MarshalResult(r) ==
    IF r.kind # "CallToolResult" THEN r
    ELSE [k \in {"content"} \cup (IF r.IsError THEN {"isError"} ELSE {}) |->
            IF k = "content" THEN r.Content ELSE r.IsError]

Marshal(r) ==
    [k \in {"jsonrpc"} \cup (IF r.ID # Nil THEN {"id"} ELSE {})
                       \cup (IF r.Result # Nil THEN {"result"} ELSE {})
                       \cup (IF r.Error # Nil THEN {"error"} ELSE {}) |->
        CASE k = "jsonrpc" -> <<r.JSONRPC>>
          [] k = "id" -> r.ID
          [] k = "result" -> <<MarshalResult(r.Result[1])>>
          [] k = "error" -> r.Error]

\* Variant of Println: the new line is put in front of the earlier output.
PrintlnInFront(out, n, r) == <<[line |-> n, json |-> Marshal(r)]>> \o out

\* fmt.Println of the marshalled response: one more line on standard output.
Println(out, n, r) == Append(out, [line |-> n, json |-> Marshal(r)])

-----------------------------------------------------------------------------
(* The remote image service: what Models.GenerateContent can return *)

ImageBytes == <<137, 80>>

PartKinds ==
    {[Text |-> t, InlineData |-> d] :
        t \in {<<>>, <<"t">>}, d \in {Nil, Some(<<>>), Some(ImageBytes)}}

RECURSIVE SeqsUpTo(_, _)
SeqsUpTo(S, n) ==
    IF n = 0 THEN {<<>>}
    ELSE LET shorter == SeqsUpTo(S, n - 1)
         IN  shorter \cup {Append(q, x) : q \in shorter, x \in S}

Candidate(content) == [Content |-> content]

\* err is TRUE when the call returned an error; otherwise Candidates is the response's list.
RemoteError == [err |-> TRUE, Candidates |-> <<>>]
RemoteResponses ==
    {[err |-> FALSE, Candidates |-> <<>>],
     [err |-> FALSE, Candidates |-> <<Candidate(Nil)>>]}
    \cup {[err |-> FALSE, Candidates |-> <<Candidate(Some(ps))>>] :
            ps \in SeqsUpTo(PartKinds, MaxParts)}
RemoteOutcomes == {RemoteError} \cup RemoteResponses

\* result.Candidates[0].Content.Parts panics on an empty list and on a nil Content.
PartsPanic(result) == result.Candidates = <<>> \/ result.Candidates[1].Content = Nil

\* The loop over the parts: the text parts concatenated, the last image encoded.
RECURSIVE ExtractParts(_, _)
ExtractParts(parts, acc) ==
    IF parts = <<>> THEN acc
    ELSE LET part == Head(parts)
         IN  IF part.Text # <<>>
             THEN ExtractParts(Tail(parts),
                      [acc EXCEPT !.textResponse = acc.textResponse \o part.Text])
             ELSE IF part.InlineData # Nil
             THEN ExtractParts(Tail(parts),
                      [acc EXCEPT !.imageData = EncodeToString(part.InlineData[1])])
             ELSE ExtractParts(Tail(parts), acc)

Extracted(result) ==
    ExtractParts(result.Candidates[1].Content[1], [imageData |-> <<>>, textResponse |-> <<>>])

\* The result returned when the response carries no image.
NoImageResult(first, textResponse) ==
    CallToolResult(
        <<TextContent(<<first>> \o (IF textResponse # <<>>
                                     THEN <<"\n\nModel response: ">> \o textResponse
                                     ELSE <<>>))>>, FALSE)

-----------------------------------------------------------------------------
(* saveImage *)

Ev(op, res) == [op |-> op, res |-> res]
OSError == <<"os error">>

\* time.Now().Format("2006-01-02T15-04-05") at the moments a save can happen
Timestamps == {"2026-01-01T00-00-00", "2026-01-01T00-00-01"}

\* Variant of SaveDir: the directory name is fixed and outputDir is not used.
SaveDirFixed(outDir) == Join(Dot, <<"generated_imgs">>)

\* dir := filepath.Join(".", s.outputDir)
SaveDir(outDir) == Join(Dot, outDir)

\* fmt.Sprintf("%s-%s.png", prefix, timestamp)
FileName(prefix, timestamp) == <<prefix, "-", timestamp, ".png">>

\* os.WriteFile: the file at path now holds bytes.
WriteFile(fs, path, bytes) == {f \in fs : f[1] # path} \cup {<<path, bytes>>}

\* Every way a call of saveImage can end: the returned (path, err), the file
\* system it leaves and the system calls it made.
SaveImage(base64Data, prefix) ==
    LET dir == SaveDir(outputDir)
        dec == DecodeString(base64Data)
        out(path, err, d, f, evs) ==
            [path |-> path, err |-> err, dirs |-> d, files |-> f, events |-> evs]
    IN  {out(<<>>, Some(OSError), dirs, files, <<Ev("MkdirAll", "error")>>)}
        \cup
        (IF ~dec[1]
         THEN {out(<<>>, Some(<<"illegal base64 data">>), dirs \cup {dir}, files,
                   <<Ev("MkdirAll", "ok")>>)}
         ELSE UNION {
            LET filePath == Join(dir, FileName(prefix, ts))
                written == WriteFile(files, filePath, dec[2])
            IN  { out(<<>>, Some(OSError), dirs \cup {dir}, files,
                      <<Ev("MkdirAll", "ok"), Ev("WriteFile", "error")>>),
                  out(<<>>, Some(<<"failed to get absolute path: ">> \o OSError),
                      dirs \cup {dir}, written,
                      <<Ev("MkdirAll", "ok"), Ev("WriteFile", "ok"), Ev("Getwd", "error")>>),
                  out(Abs(filePath), Nil, dirs \cup {dir}, written,
                      <<Ev("MkdirAll", "ok"), Ev("WriteFile", "ok"), Ev("Getwd", "ok")>>) }
            : ts \in Timestamps })

-----------------------------------------------------------------------------
(* Validation in the two tool operations *)

\* Variant of GenerateArgsError: the empty prompt is let through.
GenerateArgsErrorTypeOnly(args) ==
    IF ~StringArg(args, "prompt").ok THEN Some(<<"prompt is required">>) ELSE Nil

\* generateImage: the error its argument check returns, Nil when it passes.
GenerateArgsError(args) ==
    LET prompt == StringArg(args, "prompt")
    IN  IF ~prompt.ok \/ prompt.s = <<>> THEN Some(<<"prompt is required">>) ELSE Nil

\* Variant of EditArgsError: the path is tested for a leading ".." and is not cleaned.
EditArgsErrorLeadingOnly(args) ==
    LET imagePath == StringArg(args, "image_path")
        prompt == StringArg(args, "prompt")
    IN  IF ~imagePath.ok \/ imagePath.s = <<>> THEN Some(<<"image_path is required">>)
        ELSE IF ~prompt.ok \/ prompt.s = <<>> THEN Some(<<"prompt is required">>)
        ELSE IF HasPrefix(imagePath.s, DotDot)
        THEN Some(<<"invalid image path: directory traversal not allowed">>)
        ELSE Nil

\* Variant of EditArgsError: prompt is checked before image_path.
EditArgsErrorPromptFirst(args) ==
    LET imagePath == StringArg(args, "image_path")
        prompt == StringArg(args, "prompt")
    IN  IF ~prompt.ok \/ prompt.s = <<>> THEN Some(<<"prompt is required">>)
        ELSE IF ~imagePath.ok \/ imagePath.s = <<>> THEN Some(<<"image_path is required">>)
        ELSE IF Contains(Clean(imagePath.s), DotDot)
        THEN Some(<<"invalid image path: directory traversal not allowed">>)
        ELSE Nil

\* editImage: the error of its argument checks and path check, Nil when they pass.
EditArgsError(args) ==
    LET imagePath == StringArg(args, "image_path")
        prompt == StringArg(args, "prompt")
    IN  IF ~imagePath.ok \/ imagePath.s = <<>> THEN Some(<<"image_path is required">>)
        ELSE IF ~prompt.ok \/ prompt.s = <<>> THEN Some(<<"prompt is required">>)
        ELSE IF Contains(Clean(imagePath.s), DotDot)
        THEN Some(<<"invalid image path: directory traversal not allowed">>)
        ELSE Nil

GeneratedText(filePath, prompt) ==
    <<"Image generated and saved to: ">> \o filePath \o <<"\n\nPrompt: ">> \o prompt
EditedText(filePath, imagePath, prompt) ==
    <<"Image edited and saved to: ">> \o filePath \o <<"\n\nOriginal: ">> \o imagePath
        \o <<"\nPrompt: ">> \o prompt

\* Variant of ReadFileError: the error of os.ReadFile is dropped.
ReadFileErrorIgnored(ok) == Nil

\* editImage: the error returned after os.ReadFile, Nil when the file was read.
ReadFileError(ok) ==
    IF ~ok THEN Some(<<"failed to read image: ">> \o OSError) ELSE Nil

\* Both operations: the error returned after GenerateContent, Nil when it succeeded.
RemoteCallError(result) ==
    IF result.err THEN Some(<<"API request failed: ">> \o <<"remote error">>) ELSE Nil

\* Variant of HasImage: the operation saves whatever the response held.
HasImageAlways(data) == TRUE

\* Both operations go on to saveImage only with a non-empty imageData.
HasImage(data) == data # <<>>

\* What the remote call did, as recorded in events.
RemoteResult(result) ==
    IF result.err THEN "error"
    ELSE IF PartsPanic(result) THEN "malformed"
    ELSE IF Extracted(result).imageData # <<>> THEN "image" ELSE "noimage"

-----------------------------------------------------------------------------
(* The state machine *)

OutputDirArgs == { <<"a">>, <<"/", "a">>, <<".", ".", "/", "a">>, <<>> }

\* The client that genai.NewClient returned to main.
GeminiClient == "genai.Client"

InitCommon ==
    /\ pc = "scan"
    /\ lineNo = 0
    /\ cur = NoLine
    /\ resp = Nil
    /\ imageData = <<>>
    /\ stdout = <<>>
    /\ client = GeminiClient
    /\ dirs = {}
    /\ files = {}
    /\ events = <<>>
    /\ inflight = {}
    /\ exitErr = "running"

\* main without a command-line argument
Init == InitCommon /\ outputDir = defaultOutputDir

\* main with or without a command-line argument
InitArgs == InitCommon /\ outputDir \in {defaultOutputDir} \cup OutputDirArgs

\* Variant of CanScan: Run reads on while a response is still to be written.
CanScanEarly == pc \in {"scan", "write"}

\* Run is at the head of its loop, about to call scanner.Scan.
CanScan == pc = "scan"

\* scanner.Scan returns a line that Run skips: it is empty or is not a JSON request.
ScanSkip(n) ==
    /\ CanScan /\ lineNo < n
    /\ \E k \in {"empty", "garbage"} : cur' = Line(k, NoReq)
    /\ lineNo' = lineNo + 1
    /\ pc' = "loop"
    /\ UNCHANGED <<resp, imageData, stdout, client, outputDir, dirs, files, events, inflight, exitErr>>

\* scanner.Scan returns a line that decodes to a request.
ScanRequest(n) ==
    /\ CanScan /\ lineNo < n
    /\ \E r \in Requests : cur' = Line("request", r)
    /\ lineNo' = lineNo + 1
    /\ inflight' = inflight \cup {lineNo'}
    /\ pc' = "handle"
    /\ UNCHANGED <<resp, imageData, stdout, client, outputDir, dirs, files, events, exitErr>>

\* scanner.Scan returns false: end of input, or a line longer than the scanner's buffer.
ScanEnd(n) ==
    /\ CanScan
    /\ \/ exitErr' = "nil"
       \/ lineNo < n /\ exitErr' = "bufio.Scanner: token too long"
    /\ pc' = "exit"
    /\ UNCHANGED <<lineNo, cur, resp, imageData, stdout, client, outputDir, dirs, files, events, inflight>>

\* handleRequest returns resp to Run, which goes on to write it.
Return(r) ==
    /\ resp' = Some(r)
    /\ pc' = "write"

HandleInitialize ==
    /\ pc = "handle" /\ cur.req.Method = "initialize"
    /\ Return(handleInitialize(cur.req))
    /\ UNCHANGED <<lineNo, cur, imageData, stdout, client, outputDir, dirs, files, events, inflight, exitErr>>

\* handleRequest returns nil and Run continues with the next line.
HandleNotification ==
    /\ pc = "handle" /\ cur.req.Method = "notifications/initialized"
    /\ resp' = Nil
    /\ pc' = "loop"
    /\ inflight' = inflight \ {lineNo}
    /\ UNCHANGED <<lineNo, cur, imageData, stdout, client, outputDir, dirs, files, events, exitErr>>

HandleListTools ==
    /\ pc = "handle" /\ cur.req.Method = "tools/list"
    /\ Return(handleListTools(cur.req))
    /\ UNCHANGED <<lineNo, cur, imageData, stdout, client, outputDir, dirs, files, events, inflight, exitErr>>

HandleUnknownMethod ==
    /\ pc = "handle"
    /\ cur.req.Method \notin {"initialize", "notifications/initialized", "tools/list", "tools/call"}
    /\ Return(MethodNotFoundResponse(cur.req))
    /\ UNCHANGED <<lineNo, cur, imageData, stdout, client, outputDir, dirs, files, events, inflight, exitErr>>

\* handleCallTool up to the call of the operation
HandleCallTool ==
    /\ pc = "handle" /\ cur.req.Method = "tools/call"
    /\ IF ~cur.req.Params.ok THEN Return(InvalidParamsResponse(cur.req))
       ELSE IF cur.req.Params.Name = "generate_image" THEN pc' = "generateImage" /\ resp' = resp
       ELSE IF cur.req.Params.Name = "edit_image" THEN pc' = "editImage" /\ resp' = resp
       ELSE Return(UnknownToolResponse(cur.req))
    /\ UNCHANGED <<lineNo, cur, imageData, stdout, client, outputDir, dirs, files, events, inflight, exitErr>>

\* The operation returns (result, err) and handleCallTool returns its response.
ToolReturn(result, err) == Return(CallToolReturn(cur.req, result, err))
NoResult == CallToolResult(<<>>, FALSE)

\* generateImage: the prompt check
GenerateValidate ==
    /\ pc = "generateImage"
    /\ LET err == GenerateArgsError(cur.req.Params.Arguments)
       IN  IF err # Nil THEN ToolReturn(NoResult, err)
           ELSE pc' = "generateCall" /\ resp' = resp
    /\ UNCHANGED <<lineNo, cur, imageData, stdout, client, outputDir, dirs, files, events, inflight, exitErr>>

\* The remote call of either operation and the loop over the parts of its response.
RemoteCall(noImage, next) ==
    \E result \in RemoteOutcomes :
        /\ events' = Append(events, Ev("GenerateContent", RemoteResult(result)))
        /\ IF RemoteCallError(result) # Nil
           THEN ToolReturn(NoResult, RemoteCallError(result)) /\ imageData' = imageData
           ELSE IF PartsPanic(result)
           THEN pc' = "panic" /\ resp' = resp /\ imageData' = imageData
           ELSE LET ex == Extracted(result)
                IN  IF HasImage(ex.imageData)
                    THEN pc' = next /\ resp' = resp /\ imageData' = ex.imageData
                    ELSE /\ ToolReturn(NoImageResult(noImage, ex.textResponse), Nil)
                         /\ imageData' = ex.imageData

GenerateCall ==
    /\ pc = "generateCall"
    /\ RemoteCall("No image was generated.", "generateSave")
    /\ UNCHANGED <<lineNo, cur, stdout, client, outputDir, dirs, files, inflight, exitErr>>

\* The text content of the operation's result once the image is saved.
SavedText(path) ==
    LET args == cur.req.Params.Arguments
    IN  IF cur.req.Params.Name = "generate_image"
        THEN GeneratedText(path, args.prompt.v)
        ELSE EditedText(path, args.image_path.v, args.prompt.v)

\* saveImage called by an operation, and the operation's return
SaveAndReturn(prefix) ==
    \E r \in SaveImage(imageData, prefix) :
        /\ dirs' = r.dirs
        /\ files' = r.files
        /\ events' = events \o r.events
        /\ IF r.err # Nil
           THEN ToolReturn(NoResult, Some(<<"failed to save image: ">> \o r.err[1]))
           ELSE ToolReturn(CallToolResult(<<TextContent(SavedText(r.path)),
                                            ImageContent(imageData)>>, FALSE), Nil)

GenerateSave ==
    /\ pc = "generateSave"
    /\ SaveAndReturn("generated")
    /\ UNCHANGED <<lineNo, cur, imageData, stdout, client, outputDir, inflight, exitErr>>

\* editImage: the argument checks and the path check
EditValidate ==
    /\ pc = "editImage"
    /\ LET err == EditArgsError(cur.req.Params.Arguments)
       IN  IF err # Nil THEN ToolReturn(NoResult, err)
           ELSE pc' = "editRead" /\ resp' = resp
    /\ UNCHANGED <<lineNo, cur, imageData, stdout, client, outputDir, dirs, files, events, inflight, exitErr>>

\* editImage: os.ReadFile(cleanPath)
EditReadFile ==
    /\ pc = "editRead"
    /\ LET cleanPath == Clean(cur.req.Params.Arguments.image_path.v)
           ok == cleanPath \in ReadableFiles
       IN  /\ events' = Append(events, Ev("ReadFile", IF ok THEN "ok" ELSE "error"))
           /\ IF ReadFileError(ok) # Nil THEN ToolReturn(NoResult, ReadFileError(ok))
              ELSE pc' = "editCall" /\ resp' = resp
    /\ UNCHANGED <<lineNo, cur, imageData, stdout, client, outputDir, dirs, files, inflight, exitErr>>

EditCall ==
    /\ pc = "editCall"
    /\ RemoteCall("No edited image was generated.", "editSave")
    /\ UNCHANGED <<lineNo, cur, stdout, client, outputDir, dirs, files, inflight, exitErr>>

EditSave ==
    /\ pc = "editSave"
    /\ SaveAndReturn("edited")
    /\ UNCHANGED <<lineNo, cur, imageData, stdout, client, outputDir, inflight, exitErr>>

\* Run marshals the response and prints it.
WriteResponse ==
    /\ pc = "write"
    /\ stdout' = Println(stdout, lineNo, resp[1])
    /\ inflight' = inflight \ {lineNo}
    /\ pc' = "loop"
    /\ UNCHANGED <<lineNo, cur, resp, imageData, client, outputDir, dirs, files, events, exitErr>>

\* The end of the loop body: the locals of the iteration go out of scope.
Continue ==
    /\ pc = "loop"
    /\ pc' = "scan"
    /\ cur' = NoLine
    /\ resp' = Nil
    /\ imageData' = <<>>
    /\ events' = <<>>
    /\ UNCHANGED <<lineNo, stdout, client, outputDir, dirs, files, inflight, exitErr>>

\* One iteration's work after the scan, and the end of the iteration.
Handle ==
    \/ HandleInitialize
    \/ HandleNotification
    \/ HandleListTools
    \/ HandleUnknownMethod
    \/ HandleCallTool
    \/ GenerateValidate
    \/ GenerateCall
    \/ GenerateSave
    \/ EditValidate
    \/ EditReadFile
    \/ EditCall
    \/ EditSave
    \/ WriteResponse
    \/ Continue

Next ==
    \/ ScanSkip(MaxLines)
    \/ ScanRequest(MaxLines)
    \/ ScanEnd(MaxLines)
    \/ Handle

NextArgs ==
    \/ ScanSkip(MaxArgLines)
    \/ ScanRequest(MaxArgLines)
    \/ ScanEnd(MaxArgLines)
    \/ Handle

\* The server started without a command-line argument, fed up to MaxLines lines.
Spec == Init /\ [][Next]_vars

\* The server started with any of the output directories, fed up to MaxArgLines lines.
SpecArgs == InitArgs /\ [][NextArgs]_vars

TypeOK ==
    /\ pc \in {"scan", "handle", "generateImage", "generateCall", "generateSave",
               "editImage", "editRead", "editCall", "editSave", "write", "loop",
               "panic", "exit"}
    /\ lineNo \in 0..MaxLines
    /\ Len(stdout) <= lineNo

-----------------------------------------------------------------------------
(* Vocabulary of the properties *)

Last(q) == q[Len(q)]
Count(evs, op) == Cardinality({i \in DOMAIN evs : evs[i].op = op})
RepliesTo(n) == {i \in DOMAIN stdout : stdout[i].line = n}

IsRequest == cur.kind = "request"
IsCallOf(name) ==
    /\ IsRequest /\ cur.req.Method = "tools/call"
    /\ cur.req.Params.ok /\ cur.req.Params.Name = name
CallArgs == cur.req.Params.Arguments

\* The value is missing, empty or not a string.
Unusable(v) == v.t # "string" \/ v.v = <<>>

\* The response is a result that reports a tool error with exactly this message.
IsToolError(r, msg) ==
    /\ r.Error = Nil /\ r.Result # Nil
    /\ r.Result[1] = CallToolResult(<<TextContent(<<"Error: ">> \o msg)>>, TRUE)

-----------------------------------------------------------------------------
(* C1 *)

-----------------------------------------------------------------------------
(* C2 *)

\* C2: a request that carries no id gets no response: handleRequest returns nil
\* for it and Run writes nothing to standard output for it.
C2_NoReplyWithoutID ==
    (IsRequest /\ cur.req.ID = Nil) =>
        /\ pc # "write"
        /\ resp = Nil
        /\ RepliesTo(lineNo) = {}

-----------------------------------------------------------------------------
(* C3 *)

GeneratePCs == {"generateImage", "generateCall", "generateSave"}
EditPCs == {"editImage", "editRead", "editCall", "editSave"}

\* C3: an operation runs only for a tools/call that names it; one request makes
\* at most one remote call and at most one file save (one MkdirAll, one
\* WriteFile), and the save comes only after the remote call has returned
\* without error and with an image.
C3_OneCallOneSave ==
    /\ pc \in GeneratePCs => IsCallOf("generate_image")
    /\ pc \in EditPCs => IsCallOf("edit_image")
    /\ events # <<>> => IsCallOf("generate_image") \/ IsCallOf("edit_image")
    /\ Count(events, "GenerateContent") <= 1
    /\ Count(events, "MkdirAll") <= 1
    /\ Count(events, "WriteFile") <= 1
    /\ \A i \in DOMAIN events :
        events[i].op \in {"MkdirAll", "WriteFile"} =>
            \E j \in 1..(i - 1) : events[j] = Ev("GenerateContent", "image")
    /\ pc \in {"generateSave", "editSave"} =>
        /\ Last(events) = Ev("GenerateContent", "image")
        /\ imageData # <<>>

\* A tools/call has made its remote call and then written its file.
C3_Witness ==
    /\ pc = "write" /\ IsCallOf("edit_image")
    /\ \E i \in DOMAIN events : events[i] = Ev("WriteFile", "ok")

-----------------------------------------------------------------------------
(* C4 *)

\* C4: requests are handled one at a time: at most one request is in progress,
\* the one of the line read last; every remote call and file operation belongs
\* to it; and when Run reads the next line no request is in progress, the
\* response of the one before having been written.
C4_OneAtATime ==
    /\ Cardinality(inflight) <= 1
    /\ inflight \subseteq {lineNo}
    /\ pc \in {"handle", "write"} \cup GeneratePCs \cup EditPCs => inflight = {lineNo}
    /\ pc = "scan" =>
        /\ inflight = {} /\ events = <<>>
        /\ \A i \in DOMAIN stdout : stdout[i].line <= lineNo
    /\ pc = "loop" /\ resp # Nil => RepliesTo(lineNo) # {}

\* The second request is at its remote call; the first one's response is written.
C4_Witness ==
    /\ pc = "editCall" /\ lineNo = 2 /\ inflight = {2}
    /\ Len(stdout) = 1 /\ stdout[1].line = 1

-----------------------------------------------------------------------------
(* C5 *)

TraversalMsg == <<"invalid image path: directory traversal not allowed">>

\* The request is an edit_image whose image_path, cleaned, contains "..".
Traversal ==
    /\ IsCallOf("edit_image") /\ CallArgs.image_path.t = "string"
    /\ Contains(Clean(CallArgs.image_path.v), DotDot)

\* C5 as stated: every edit_image whose cleaned image_path contains ".." fails
\* with "directory traversal not allowed", no file having been read and the
\* remote service not contacted.
C5_TraversalRejected ==
    Traversal =>
        /\ events = <<>> /\ pc \notin {"editRead", "editCall", "editSave"}
        /\ pc = "write" => IsToolError(resp[1], TraversalMsg)

\* C5 as amended: every edit_image whose cleaned image_path contains ".." fails
\* without a file read or a remote call: with "directory traversal not allowed"
\* when prompt is a non-empty string, with "prompt is required" when it is not.
C5_TraversalRejectedAfterArgs ==
    Traversal =>
        /\ events = <<>> /\ pc \notin {"editRead", "editCall", "editSave"}
        /\ pc = "write" =>
            IF Unusable(CallArgs.prompt)
            THEN IsToolError(resp[1], <<"prompt is required">>)
            ELSE IsToolError(resp[1], TraversalMsg)

\* a/../../a with a usable prompt has been rejected.
C5_Witness ==
    /\ pc = "write" /\ Traversal /\ ~Unusable(CallArgs.prompt)
    /\ CallArgs.image_path.v = <<"a", "/", ".", ".", "/", ".", ".", "/", "a">>
    /\ IsToolError(resp[1], TraversalMsg)

-----------------------------------------------------------------------------
(* C6 *)

\* C6: generate_image whose prompt is absent, empty or not a string (the nil
\* argument map included) fails with "prompt is required"; the remote service is
\* not contacted and no file is written.
C6_PromptRequired ==
    (IsCallOf("generate_image") /\ Unusable(CallArgs.prompt)) =>
        /\ events = <<>> /\ pc \notin {"generateCall", "generateSave", "panic"}
        /\ pc \in {"write", "loop"} =>
            resp # Nil /\ IsToolError(resp[1], <<"prompt is required">>)

\* generate_image with a nil argument map has failed.
C6_Witness ==
    /\ pc = "write" /\ IsCallOf("generate_image") /\ CallArgs.isNil
    /\ IsToolError(resp[1], <<"prompt is required">>)

-----------------------------------------------------------------------------
(* C7 *)

\* C7: edit_image checks image_path first and prompt second: an unusable
\* image_path fails with "image_path is required" whatever prompt is, a usable
\* one with an unusable prompt fails with "prompt is required"; in both cases no
\* file is read and the remote service is not contacted.
C7_EditArgsOrder ==
    (IsCallOf("edit_image") /\ (Unusable(CallArgs.image_path) \/ Unusable(CallArgs.prompt))) =>
        /\ events = <<>> /\ pc \notin {"editRead", "editCall", "editSave", "panic"}
        /\ pc \in {"write", "loop"} =>
            /\ resp # Nil
            /\ IF Unusable(CallArgs.image_path)
               THEN IsToolError(resp[1], <<"image_path is required">>)
               ELSE IsToolError(resp[1], <<"prompt is required">>)

\* Neither argument is usable and the image_path error has been returned.
C7_Witness ==
    /\ pc = "write" /\ IsCallOf("edit_image")
    /\ CallArgs.image_path = Number /\ CallArgs.prompt = Str(<<>>)
    /\ IsToolError(resp[1], <<"image_path is required">>)

-----------------------------------------------------------------------------
(* C8 *)

\* C8: edit_image calls the remote service only after os.ReadFile has
\* succeeded; when the read fails the operation fails with "failed to read
\* image", having made no remote call and saved no file.
C8_ReadBeforeCall ==
    IsCallOf("edit_image") =>
        /\ \A i \in DOMAIN events :
            events[i].op = "GenerateContent" =>
                \E j \in 1..(i - 1) : events[j] = Ev("ReadFile", "ok")
        /\ pc \in {"editCall", "editSave"} => events[1] = Ev("ReadFile", "ok")
        /\ (\E i \in DOMAIN events : events[i] = Ev("ReadFile", "error")) =>
            /\ events = <<Ev("ReadFile", "error")>>
            /\ pc \in {"write", "loop"}
            /\ resp # Nil
            /\ IsToolError(resp[1], <<"failed to read image: ">> \o OSError)

\* The read of the source file has failed and the error is about to be written.
C8_Witness ==
    /\ pc = "write" /\ IsCallOf("edit_image")
    /\ events = <<Ev("ReadFile", "error")>>

-----------------------------------------------------------------------------
(* C9 *)

\* saveImage has returned a path to the operation, which has returned its result.
SaveSucceeded == pc = "write" /\ events # <<>> /\ Last(events) = Ev("Getwd", "ok")

\* The directory the server was given, as a path relative to the working directory.
GivenDir == IF outputDir = <<>> THEN Dot ELSE Clean(Dot \o <<"/">> \o outputDir)
InDir(d, name) == IF d = Dot THEN name ELSE d \o <<"/">> \o name
FromCwd(rel) == Clean(Cwd \o <<"/">> \o rel)
UnderCwd(abs) == abs = Cwd \/ HasPrefix(abs, Cwd \o <<"/">>)

\* The directory exists, holds the image under <prefix>-<timestamp>.png for one
\* of the timestamps, and the result names that file by its absolute path.
SavedIn(d) ==
    \E ts \in Timestamps :
        LET prefix == IF IsCallOf("generate_image") THEN "generated" ELSE "edited"
            rel == InDir(d, <<prefix, "-", ts, ".png">>)
            text == resp[1].Result[1].Content[1].Text
        IN  /\ d \in dirs
            /\ <<rel, ImageBytes>> \in files
            /\ resp[1].Result[1].IsError = FALSE
            /\ IF IsCallOf("generate_image")
               THEN text = GeneratedText(FromCwd(rel), CallArgs.prompt.v)
               ELSE text = EditedText(FromCwd(rel), CallArgs.image_path.v, CallArgs.prompt.v)

\* C9 as stated: after a successful saveImage the output directory exists under
\* the working directory, the image is in a file <prefix>-<timestamp>.png inside
\* it, and the path of that file has been returned.
C9_SavedUnderCwd ==
    SaveSucceeded => SavedIn(GivenDir) /\ UnderCwd(FromCwd(GivenDir))

\* C9 as amended: after a successful saveImage the directory
\* filepath.Join(".", outputDir), relative to the working directory, exists, the
\* image is in a file <prefix>-<timestamp>.png inside it, and the absolute path
\* of that file has been returned; the directory lies under the working
\* directory unless the cleaned outputDir begins with "..".
C9_SavedInGivenDir ==
    SaveSucceeded =>
        /\ SavedIn(GivenDir)
        /\ ~HasPrefix(GivenDir, DotDot) => UnderCwd(FromCwd(GivenDir))

\* An image has been saved with the output directory given as /a.
C9_Witness ==
    /\ SaveSucceeded /\ outputDir = <<"/", "a">>
    /\ <<"a">> \in dirs /\ files # {}

-----------------------------------------------------------------------------
(* C10 *)

\* The operation of the current tools/call has failed: in its argument
\* validation, its path check, its file read, its remote call or its file save.
ToolFailed ==
    \/ IsCallOf("generate_image") /\ Unusable(CallArgs.prompt)
    \/ /\ IsCallOf("edit_image")
       /\ \/ Unusable(CallArgs.image_path)
          \/ Unusable(CallArgs.prompt)
          \/ Contains(Clean(CallArgs.image_path.v), DotDot)
    \/ events # <<>> /\ Last(events).res = "error"

-----------------------------------------------------------------------------
(* C11 *)

\* The reply on standard output that carries this id and this result or error.
Reply(id, key, value) ==
    IF id # Nil
    THEN ("jsonrpc" :> <<"2.0">>) @@ ("id" :> id) @@ (key :> <<value>>)
    ELSE ("jsonrpc" :> <<"2.0">>) @@ (key :> <<value>>)

ErrorReply(id, code, msg) == Reply(id, "error", [Code |-> code, Message |-> msg])
ToolErrorReply(id, msg) ==
    Reply(id, "result",
          ("content" :> << [Type |-> "text", Text |-> <<"Error: ", msg>>, Data |-> <<>>,
                            MimeType |-> ""] >>) @@ ("isError" :> TRUE))

\* The request is a tools/call that names one of the two tools and whose
\* arguments do not pass the tool's checks.
FailsValidation(req) ==
    /\ req.Method = "tools/call" /\ req.Params.ok
    /\ \/ req.Params.Name = "generate_image" /\ Unusable(req.Params.Arguments.prompt)
       \/ /\ req.Params.Name = "edit_image"
          /\ \/ Unusable(req.Params.Arguments.image_path)
             \/ Unusable(req.Params.Arguments.prompt)
             \/ Contains(Clean(req.Params.Arguments.image_path.v), DotDot)

\* The requests whose reply the claim says depends on nothing but the request.
RepliedFromRequestAlone(req) ==
    \/ req.Method \notin {"notifications/initialized", "tools/call"}
    \/ req.Method = "tools/call" /\ ~req.Params.ok
    \/ req.Method = "tools/call" /\ req.Params.Name \notin {"generate_image", "edit_image"}
    \/ FailsValidation(req)

\* Their reply, written down from the request and from nothing else.
ReplyFromRequestAlone(req) ==
    LET args == req.Params.Arguments
    IN  IF req.Method = "initialize"
        THEN Reply(req.ID, "result",
                 [kind |-> "InitializeResult", ProtocolVersion |-> "2024-11-05",
                  Capabilities |-> {"tools"},
                  ServerInfo |-> [Name |-> "nano-banana-mcp", Version |-> "2.0.0"]])
        ELSE IF req.Method = "tools/list"
        THEN Reply(req.ID, "result",
                 [kind |-> "ListToolsResult",
                  Tools |-> << [Name |-> "generate_image", Required |-> <<"prompt">>],
                               [Name |-> "edit_image",
                                Required |-> <<"image_path", "prompt">>] >>])
        ELSE IF req.Method # "tools/call"
        THEN ErrorReply(req.ID, MethodNotFound, <<"Method not found">>)
        ELSE IF ~req.Params.ok
        THEN ErrorReply(req.ID, InvalidParams, <<"Invalid params">>)
        ELSE IF req.Params.Name = "generate_image"
        THEN ToolErrorReply(req.ID, "prompt is required")
        ELSE IF req.Params.Name = "edit_image"
        THEN ToolErrorReply(req.ID,
                 IF Unusable(args.image_path) THEN "image_path is required"
                 ELSE IF Unusable(args.prompt) THEN "prompt is required"
                 ELSE "invalid image path: directory traversal not allowed")
        ELSE ErrorReply(req.ID, MethodNotFound, <<"Unknown tool: ", req.Params.Name>>)

\* Once Run is through with a request: a request answered from the request alone
\* has on standard output the reply written down above, whatever was handled and
\* saved before it; and a call of one of the two tools has been answered with a
\* result, first request or not.
C11_SameReplyWhateverBefore ==
    (pc = "loop" /\ IsRequest) =>
        /\ RepliedFromRequestAlone(cur.req) =>
            /\ RepliesTo(lineNo) # {}
            /\ Last(stdout) = [line |-> lineNo, json |-> ReplyFromRequestAlone(cur.req)]
        /\ (IsCallOf("generate_image") \/ IsCallOf("edit_image")) =>
            /\ RepliesTo(lineNo) # {}
            /\ "result" \in DOMAIN Last(stdout).json

\* C11: the server keeps no state between requests: no step changes the
\* server's client or its output directory; the reply to initialize, tools/list,
\* an unknown method or a tools/call that fails validation is a function of the
\* request alone, the same whatever requests were handled before it; and
\* tools/list and tools/call are served whether or not an initialize came first.
C11_NoStateBetweenRequests ==
    /\ [][client' = client /\ outputDir' = outputDir]_vars
    /\ []C11_SameReplyWhateverBefore

\* tools/list is answered as the second request, after a tools/call that saved an
\* image and without any initialize before it.
C11_Witness ==
    /\ pc = "loop" /\ lineNo = 2 /\ IsRequest /\ cur.req.Method = "tools/list"
    /\ files # {} /\ Len(stdout) = 2
    /\ stdout[2].json = ReplyFromRequestAlone(cur.req)

====
